---- MODULE Spec2Model ----
(***************************************************************************)
(* Model of rip (src/main.rs): an interactive terminal tool that lists the *)
(* processes listening on ports (parsed from an lsof report) and kills the *)
(* selected one.                                                           *)
(*                                                                         *)
(* Text is modelled as sequences of one-character strings, so splitting,   *)
(* substring search and integer parsing are computed, not assumed.         *)
(***************************************************************************)
EXTENDS Integers, Sequences, FiniteSets, TLC

VARIABLES
    pc,           \* position of main: see PcValues
    raw_mode,     \* terminal is in raw mode (enable_raw_mode / disable_raw_mode)
    alt_screen,   \* terminal shows the alternate screen
    exit_status,  \* "running", or what main returned: "ok", "err: <call>"
    processes,    \* App.processes
    selected,     \* App.list_state.selected(): None or a 0-based index
    message,      \* App.message
    should_quit,  \* App.should_quit
    report,       \* ScanSpec only: the text lsof printed
    last          \* what was handled since the last render: the event, the
                  \* commands run, the row a kill aimed at, the selection before

vars == <<pc, raw_mode, alt_screen, exit_status, processes, selected,
          message, should_quit, report, last>>

(***************************************************************************)
(* Bounds                                                                  *)
(***************************************************************************)
\* most data lines (after the header) in a report
MaxLines == 3

(***************************************************************************)
(* Program constants                                                       *)
(***************************************************************************)
\* u16::MAX and u32::MAX, by their digits (the latter is past TLC's integers)
U16Max == <<"6", "5", "5", "3", "5">>
U32Max == <<"4", "2", "9", "4", "9", "6", "7", "2", "9", "5">>
\* parts.len() < 9
MinFields == 9

\* Option::None of list_state.selected()
None == -1

(***************************************************************************)
(* Text                                                                    *)
(***************************************************************************)
Digits == <<"0", "1", "2", "3", "4", "5", "6", "7", "8", "9">>

IsDigit(c) == \E d \in 1..10 : Digits[d] = c

DigitVal(c) == (CHOOSE d \in 1..10 : Digits[d] = c) - 1

\* char::is_whitespace on the characters the reports use
IsSpace(c) == c \in {" ", "\t"}

\* str::split_whitespace: the maximal runs of non-whitespace characters
RECURSIVE SplitFrom(_, _, _, _)
SplitFrom(s, i, cur, acc) ==
    IF i > Len(s)
    THEN IF cur = <<>> THEN acc ELSE Append(acc, cur)
    ELSE IF IsSpace(s[i])
         THEN SplitFrom(s, i + 1, <<>>, IF cur = <<>> THEN acc ELSE Append(acc, cur))
         ELSE SplitFrom(s, i + 1, Append(cur, s[i]), acc)

split_whitespace(s) == SplitFrom(s, 1, <<>>, <<>>)

\* str::contains(pat)
contains(s, pat) ==
    \E i \in 1..(Len(s) - Len(pat) + 1) : SubSeq(s, i, i + Len(pat) - 1) = pat

\* position of the last ':' of s, 0 when there is none
LastColon(s) ==
    IF \E i \in 1..Len(s) : s[i] = ":"
    THEN CHOOSE i \in 1..Len(s) : s[i] = ":" /\ \A j \in (i + 1)..Len(s) : s[j] # ":"
    ELSE 0

\* s.rsplit(':').next(): the text after the last ':', the whole of s when
\* s has no ':' (the iterator always yields a first item)
rsplit_next(s) == SubSeq(s, LastColon(s) + 1, Len(s))

\* the digits of s without its leading zeros
RECURSIVE StripZeros(_)
StripZeros(s) ==
    IF s # <<>> /\ s[1] = "0" THEN StripZeros(Tail(s)) ELSE s

\* a > b for two digit strings without leading zeros
DigitsGreater(a, b) ==
    \/ Len(a) > Len(b)
    \/ /\ Len(a) = Len(b)
       /\ \E i \in 1..Len(a) :
            /\ DigitVal(a[i]) > DigitVal(b[i])
            /\ \A j \in 1..(i - 1) : a[j] = b[j]

RECURSIVE DigitsValue(_, _, _)
DigitsValue(s, i, acc) ==
    IF i > Len(s) THEN acc ELSE DigitsValue(s, i + 1, acc * 10 + DigitVal(s[i]))

\* <unsigned>::from_str: an optional '+', then at least one digit, every
\* character a digit, no overflow past max (given by its digits); -1 is Err
parse_unsigned(s, max) ==
    LET digits == IF s # <<>> /\ s[1] = "+" THEN Tail(s) ELSE s
    IN  IF digits = <<>> THEN -1
        ELSE IF \E i \in 1..Len(digits) : ~IsDigit(digits[i]) THEN -1
        ELSE IF DigitsGreater(StripZeros(digits), max) THEN -1
        ELSE DigitsValue(digits, 1, 0)

(***************************************************************************)
(* Port Scanner: get_port_processes                                        *)
(***************************************************************************)
PortProcess(pid, port, protocol, name) ==
    [pid |-> pid, port |-> port, protocol |-> protocol, name |-> name]

\* classify_protocol with the UDP test made first
classify_protocol_udp_first(parts) ==
    IF contains(parts[5], <<"U", "D", "P">>) \/ contains(parts[8], <<"U", "D", "P">>)
    THEN "UDP"
    ELSE IF contains(parts[5], <<"T", "C", "P">>) \/ contains(parts[8], <<"T", "C", "P">>)
         THEN "TCP"
         ELSE "???"

\* parts[4] / parts[7] substring test, TCP first
classify_protocol(parts) ==
    IF contains(parts[5], <<"T", "C", "P">>) \/ contains(parts[8], <<"T", "C", "P">>)
    THEN "TCP"
    ELSE IF contains(parts[5], <<"U", "D", "P">>) \/ contains(parts[8], <<"U", "D", "P">>)
         THEN "UDP"
         ELSE "???"

\* resolve_port that parses the port as a u32: 65536 and above pass
resolve_port_u32(addr_field) ==
    LET p == parse_unsigned(rsplit_next(addr_field), U32Max)
    IN  IF p = -1 THEN 0 ELSE p

\* port of the address field: parse of rsplit(':').next(), 0 on Err
resolve_port(addr_field) ==
    LET p == parse_unsigned(rsplit_next(addr_field), U16Max)
    IN  IF p = -1 THEN 0 ELSE p

\* parts[1].parse::<u32>(): -1 is Err
parse_pid(field) == parse_unsigned(field, U32Max)

\* scan_line with seen_pids.insert(pid) moved before the port test
scan_line_marks_seen_first(st, line) ==
    LET parts == split_whitespace(line)
    IN  IF Len(parts) < MinFields THEN st
        ELSE LET pid == parse_pid(parts[2])
             IN  IF pid = -1 THEN st
                 ELSE IF pid \in st.seen_pids THEN st
                 ELSE LET port == resolve_port(parts[9])
                          seen == [st EXCEPT !.seen_pids = @ \cup {pid}]
                      IN  IF port > 0
                          THEN [seen EXCEPT !.processes = Append(@,
                                    PortProcess(pid, port, classify_protocol(parts), parts[1]))]
                          ELSE seen

\* one turn of the for loop over the lines: st is [seen_pids, processes]
scan_line(st, line) ==
    LET parts == split_whitespace(line)
    IN  IF Len(parts) < MinFields THEN st
        ELSE LET pid == parse_pid(parts[2])
             IN  IF pid = -1 THEN st
                 ELSE IF pid \in st.seen_pids THEN st
                 ELSE LET port == resolve_port(parts[9])
                      IN  IF port > 0
                          THEN [seen_pids |-> st.seen_pids \cup {pid},
                                processes |-> Append(st.processes,
                                    PortProcess(pid, port, classify_protocol(parts), parts[1]))]
                          ELSE st

RECURSIVE ScanFrom(_, _, _)
ScanFrom(lines, i, st) ==
    IF i > Len(lines) THEN st
    ELSE ScanFrom(lines, i + 1, scan_line(st, lines[i]))

\* InsertByPort that places x before the elements of equal port
InsertByPort_before_equal(sorted, x) ==
    LET k == Cardinality({i \in 1..Len(sorted) : sorted[i].port < x.port})
    IN  SubSeq(sorted, 1, k) \o <<x>> \o SubSeq(sorted, k + 1, Len(sorted))

\* place x after every element whose port is <= x.port
InsertByPort(sorted, x) ==
    LET k == Cardinality({i \in 1..Len(sorted) : sorted[i].port <= x.port})
    IN  SubSeq(sorted, 1, k) \o <<x>> \o SubSeq(sorted, k + 1, Len(sorted))

RECURSIVE SortFrom(_, _, _)
SortFrom(s, i, acc) ==
    IF i > Len(s) THEN acc ELSE SortFrom(s, i + 1, InsertByPort(acc, s[i]))

\* Vec::sort_by_key(|p| p.port): a stable sort
sort_by_port(s) == SortFrom(s, 1, <<>>)

\* the parse of lsof's standard output, given as its lines: lines().skip(1),
\* the loop, the sort
get_port_processes(lines) ==
    sort_by_port(ScanFrom(lines, 2, [seen_pids |-> {}, processes |-> <<>>]).processes)

(***************************************************************************)
(* Inputs: the reports lsof can print                                      *)
(***************************************************************************)
RECURSIVE JoinFrom(_, _, _, _)
JoinFrom(fields, i, sep, acc) ==
    IF i > Len(fields) THEN acc
    ELSE JoinFrom(fields, i + 1, sep, IF i = 1 THEN fields[1] ELSE acc \o sep \o fields[i])

\* a line of the report: its columns separated by sep
Row(fields, sep) == JoinFrom(fields, 1, sep, <<>>)

fUser == <<"u">>
fFd == <<"3", "u">>
fDev == <<"d">>
fOff == <<"0">>
fIPv4 == <<"I", "P", "v", "4">>
fIPv6 == <<"I", "P", "v", "6">>
fTCP == <<"T", "C", "P">>
fUDP == <<"U", "D", "P">>
fListen == <<"(", "L", ")">>

\* COMMAND PID USER FD TYPE DEVICE SIZE/OFF NODE NAME
Header ==
    Row(<< <<"C", "O", "M", "M", "A", "N", "D">>, <<"P", "I", "D">>, <<"U", "S", "E", "R">>,
           <<"F", "D">>, <<"T", "Y", "P", "E">>, <<"D", "E", "V", "I", "C", "E">>,
           <<"S", "I", "Z", "E", "/", "O", "F", "F">>, <<"N", "O", "D", "E">>,
           <<"N", "A", "M", "E">> >>, <<" ">>)

\* a TCP row ends with (LISTEN), a UDP row with its address
TcpRow(name, pid, type, addr) ==
    Row(<<name, pid, fUser, fFd, type, fDev, fOff, fTCP, addr, fListen>>, <<" ">>)

UdpRow(name, pid, type, addr) ==
    Row(<<name, pid, fUser, fFd, type, fDev, fOff, fUDP, addr>>, <<" ", " ">>)

\* a row with any TYPE and NODE columns
AnyRow(name, pid, type, node, addr) ==
    Row(<<name, pid, fUser, fFd, type, fDev, fOff, node, addr>>, <<" ">>)

\* the data lines the reports are made of
Lines ==
    << TcpRow(<<"a">>, <<"1">>, fIPv4, <<"*", ":", "8", "0">>),
       \* TCP inside the TYPE column, UDP in the NODE column
       AnyRow(<<"b">>, <<"1">>, <<"T", "C", "P", "6">>, fUDP,
              <<"[", ":", ":", "1", "]", ":", "2", "2">>),
       UdpRow(<<"c">>, <<"2">>, fIPv4, <<"*", ":", "8", "0">>),
       \* UDP in the TYPE column, TCP in the NODE column
       AnyRow(<<"d">>, <<"3">>, fUDP, fTCP, <<"*", ":", "2", "2">>),
       \* port 0
       TcpRow(<<"a">>, <<"1">>, fIPv4, <<"*", ":", "0">>),
       \* an address without ':'; the protocol in lower case
       AnyRow(<<"c">>, <<"2">>, fIPv4, <<"t", "c", "p">>, <<"8", "0", "8", "0">>),
       \* a port above 65535
       TcpRow(<<"d">>, <<"3">>, fIPv4, <<"*", ":", "6", "5", "5", "3", "6">>),
       \* a port that is no number
       UdpRow(<<"c">>, <<"2">>, fIPv4, <<"*", ":", "*">>),
       \* a pid that is no number
       TcpRow(<<"a">>, <<"x">>, fIPv4, <<"*", ":", "8", "0">>),
       \* eight fields
       Row(<< <<"a">>, <<"1">>, fUser, fFd, fIPv4, fDev, fOff, fTCP>>, <<" ">>),
       \* pid 0; UDP in the TYPE column alone
       AnyRow(<<"e">>, <<"0">>, fUDP, fOff, <<"*", ":", "5", "3">>) >>

\* the header and n data lines
ReportsOfLen(n) ==
    {<<Header>> \o [i \in 1..n |-> Lines[q[i]]] : q \in [1..n -> 1..Len(Lines)]}

\* the texts lsof can print: nothing at all, or the header and up to
\* MaxLines data lines
IsReport(r) == r = <<>> \/ \E n \in 0..MaxLines : r \in ReportsOfLen(n)

\* every list a scan can return
ScanResults ==
    {<<>>} \cup UNION {{get_port_processes(r) : r \in ReportsOfLen(n)} : n \in 0..MaxLines}

(***************************************************************************)
(* Process Terminator: kill_process                                        *)
(***************************************************************************)
\* what `kill -9 pid` can do: exit 0, exit non-zero, fail to start
KillOutcomes == {"ok", "status", "spawn"}

(***************************************************************************)
(* App                                                                     *)
(***************************************************************************)
NoMessage == [kind |-> "none"]
\* format!("Found {} processes", n)
MsgFound(n) == [kind |-> "Found", n |-> n]
\* format!("Killed process {} (PID: {})", name, pid)
MsgKilled(name, pid) == [kind |-> "Killed", name |-> name, pid |-> pid]
\* format!("Failed to kill PID {}: {}", pid, e)
MsgFailed(pid, e) == [kind |-> "Failed", pid |-> pid, cause |-> e]

\* the external commands a step has run
CallLsof(ok) == [cmd |-> "lsof", ok |-> ok]
CallKill(pid, outcome) == [cmd |-> "kill", pid |-> pid, outcome |-> outcome]

\* the App value held by the variables; calls logs the commands run
CurrentApp ==
    [processes |-> processes, selected |-> selected, message |-> message,
     should_quit |-> should_quit, calls |-> <<>>]

\* Reconcile with `>` for `>=`: an index one past the end is kept
Reconcile_off_by_one(sel, n) ==
    IF n = 0 THEN None
    ELSE IF sel # None
         THEN IF sel > n THEN n - 1 ELSE sel
         ELSE 0

\* Reconcile without the last arm: no selection stays no selection
Reconcile_no_first_select(sel, n) ==
    IF n = 0 THEN None
    ELSE IF sel # None
         THEN IF sel >= n THEN n - 1 ELSE sel
         ELSE None

\* the selection rule of refresh_processes for a list of n rows
Reconcile(sel, n) ==
    IF n = 0 THEN None
    ELSE IF sel # None
         THEN IF sel >= n THEN n - 1 ELSE sel
         ELSE 0

\* refresh_processes that counts the list it replaced
refresh_processes_stale_count(app, scan, spawned) ==
    LET a1 == [app EXCEPT !.processes = scan,
                          !.calls = Append(@, CallLsof(spawned))]
        a2 == [a1 EXCEPT !.message = MsgFound(Len(app.processes))]
    IN  [a2 EXCEPT !.selected = Reconcile(a2.selected, Len(a2.processes))]

\* scan is what get_port_processes returned, spawned whether lsof ran
refresh_processes(app, scan, spawned) ==
    LET a1 == [app EXCEPT !.processes = scan,
                          !.calls = Append(@, CallLsof(spawned))]
        a2 == [a1 EXCEPT !.message = MsgFound(Len(a1.processes))]
    IN  [a2 EXCEPT !.selected = Reconcile(a2.selected, Len(a2.processes))]

\* next_index without the wrap: the last row stays selected
next_index_saturating(sel, n) ==
    IF sel # None
    THEN IF sel >= n - 1 THEN n - 1 ELSE sel + 1
    ELSE 0

next_index(sel, n) ==
    IF sel # None
    THEN IF sel >= n - 1 THEN 0 ELSE sel + 1
    ELSE 0

\* next that also clears the status message
next_clears_message(app) ==
    IF app.processes = <<>> THEN app
    ELSE [app EXCEPT !.selected = next_index(app.selected, Len(app.processes)),
                     !.message = NoMessage]

next(app) ==
    IF app.processes = <<>> THEN app
    ELSE [app EXCEPT !.selected = next_index(app.selected, Len(app.processes))]

\* previous_index without the wrap: the first row stays selected
previous_index_saturating(sel, n) ==
    IF sel # None
    THEN IF sel = 0 THEN 0 ELSE sel - 1
    ELSE 0

previous_index(sel, n) ==
    IF sel # None
    THEN IF sel = 0 THEN n - 1 ELSE sel - 1
    ELSE 0

previous(app) ==
    IF app.processes = <<>> THEN app
    ELSE [app EXCEPT !.selected = previous_index(app.selected, Len(app.processes))]

\* kill_succeeded without the re-scan
kill_succeeded_no_refresh(app, name, pid, scan, spawned) ==
    [app EXCEPT !.message = MsgKilled(name, pid)]

\* the Ok arm of kill_selected
kill_succeeded(app, name, pid, scan, spawned) ==
    refresh_processes([app EXCEPT !.message = MsgKilled(name, pid)], scan, spawned)

\* kill_failed that also drops the selection
kill_failed_deselects(app, pid, e) ==
    [app EXCEPT !.message = MsgFailed(pid, e), !.selected = None]

\* kill_failed that tries the termination a second time
kill_failed_retries(app, pid, e) ==
    [app EXCEPT !.message = MsgFailed(pid, e),
                !.calls = Append(@, CallKill(pid, e))]

\* the Err arm of kill_selected
kill_failed(app, pid, e) ==
    [app EXCEPT !.message = MsgFailed(pid, e)]

\* whether kill_selected reaches kill_process: a selection that is a row
HasTarget(app) ==
    app.selected # None /\ app.selected + 1 \in 1..Len(app.processes)

\* kill_selected that always takes the first row
kill_selected_first_row(app, outcome, scan, spawned) ==
    IF HasTarget(app)
    THEN LET process == app.processes[1]
             called == [app EXCEPT !.calls = Append(@, CallKill(process.pid, outcome))]
         IN  IF outcome = "ok"
             THEN kill_succeeded(called, process.name, process.pid, scan, spawned)
             ELSE kill_failed(called, process.pid, outcome)
    ELSE app

kill_selected(app, outcome, scan, spawned) ==
    IF HasTarget(app)
    THEN LET process == app.processes[app.selected + 1]
             called == [app EXCEPT !.calls = Append(@, CallKill(process.pid, outcome))]
         IN  IF outcome = "ok"
             THEN kill_succeeded(called, process.name, process.pid, scan, spawned)
             ELSE kill_failed(called, process.pid, outcome)
    ELSE app

\* App::new that selects row 0 without looking at the list
new_selects_first_always(scan, spawned) ==
    LET app == refresh_processes(
                   [processes |-> <<>>, selected |-> None, message |-> NoMessage,
                    should_quit |-> FALSE, calls |-> <<>>], scan, spawned)
    IN  [app EXCEPT !.selected = 0]

\* App::new
new(scan, spawned) ==
    LET app == refresh_processes(
                   [processes |-> <<>>, selected |-> None, message |-> NoMessage,
                    should_quit |-> FALSE, calls |-> <<>>], scan, spawned)
    IN  IF app.processes # <<>> THEN [app EXCEPT !.selected = 0] ELSE app

(***************************************************************************)
(* main                                                                    *)
(***************************************************************************)
PcValues ==
    {"enable_raw", "enter_alt", "new_terminal", "app_new", "draw", "poll",
     "disable_raw", "leave_alt", "exited", "scan_input", "scan_done", "scan_failed"}

\* what get_port_processes can return: <<list, whether lsof could be run>>
ScanOutcomes == {<<r, TRUE>> : r \in ScanResults} \cup {<<<<>>, FALSE>>}

\* KeyCode values: the mapped ones and one that is not
KeyCodes == {"q", "Esc", "Down", "j", "Up", "k", "Enter", "d", "r", "x"}

EvNone == [type |-> "none"]
EvStartup == [type |-> "startup"]
EvTimeout == [type |-> "timeout"]
\* Event::Resize, Event::Mouse, ...
EvOther == [type |-> "resize"]
EvKey(kind, code) == [type |-> "key", kind |-> kind, code |-> code]

IsPress(ev, codes) == ev.type = "key" /\ ev.kind = "Press" /\ ev.code \in codes

NothingHandled == [event |-> EvNone, calls |-> <<>>, target |-> <<>>, sel0 |-> None]

Init ==
    /\ pc = "enable_raw"
    /\ raw_mode = FALSE
    /\ alt_screen = FALSE
    /\ exit_status = "running"
    /\ processes = <<>>
    /\ selected = None
    /\ message = NoMessage
    /\ should_quit = FALSE
    /\ report = <<>>
    /\ last = NothingHandled

appVars == <<processes, selected, message, should_quit, last>>
termVars == <<raw_mode, alt_screen>>

\* `?` on an Err: main returns it at once
ReturnErr(from) ==
    /\ pc' = "exited"
    /\ exit_status' = "err: " \o from

\* enable_raw_mode()?
EnableRawOk ==
    /\ pc = "enable_raw"
    /\ raw_mode' = TRUE
    /\ pc' = "enter_alt"
    /\ UNCHANGED <<alt_screen, exit_status, appVars, report>>

EnableRawErr ==
    /\ pc = "enable_raw"
    /\ ReturnErr("enable_raw_mode")
    /\ UNCHANGED <<termVars, appVars, report>>

\* stdout().execute(EnterAlternateScreen)?
EnterAltOk ==
    /\ pc = "enter_alt"
    /\ alt_screen' = TRUE
    /\ pc' = "new_terminal"
    /\ UNCHANGED <<raw_mode, exit_status, appVars, report>>

EnterAltErr ==
    /\ pc = "enter_alt"
    /\ ReturnErr("EnterAlternateScreen")
    /\ UNCHANGED <<termVars, appVars, report>>

\* Terminal::new(CrosstermBackend::new(stdout()))?
NewTerminalOk ==
    /\ pc = "new_terminal"
    /\ pc' = "app_new"
    /\ UNCHANGED <<termVars, exit_status, appVars, report>>

NewTerminalErr ==
    /\ pc = "new_terminal"
    /\ ReturnErr("Terminal::new")
    /\ UNCHANGED <<termVars, appVars, report>>

\* Handled without the `if app.should_quit { break; }`: the loop goes on
Handled_no_break(ev, a) ==
    /\ processes' = a.processes
    /\ selected' = a.selected
    /\ message' = a.message
    /\ should_quit' = a.should_quit
    /\ last' = [event |-> ev, calls |-> a.calls,
                target |-> IF IsPress(ev, {"Enter", "d"}) /\ HasTarget(CurrentApp)
                           THEN <<processes[selected + 1]>> ELSE <<>>,
                sel0 |-> selected]
    /\ pc' = "draw"
    /\ UNCHANGED <<termVars, exit_status, report>>

\* the App value a and the event ev it came from become the state; then
\* `if app.should_quit { break; }`
Handled(ev, a) ==
    /\ processes' = a.processes
    /\ selected' = a.selected
    /\ message' = a.message
    /\ should_quit' = a.should_quit
    /\ last' = [event |-> ev, calls |-> a.calls,
                target |-> IF IsPress(ev, {"Enter", "d"}) /\ HasTarget(CurrentApp)
                           THEN <<processes[selected + 1]>> ELSE <<>>,
                sel0 |-> selected]
    /\ pc' = IF a.should_quit THEN "disable_raw" ELSE "draw"
    /\ UNCHANGED <<termVars, exit_status, report>>

\* let mut app = App::new();
AppNew ==
    /\ pc = "app_new"
    /\ \E so \in ScanOutcomes :
         LET a == new(so[1], so[2])
         IN  /\ processes' = a.processes
             /\ selected' = a.selected
             /\ message' = a.message
             /\ should_quit' = a.should_quit
             /\ last' = [event |-> EvStartup, calls |-> a.calls, target |-> <<>>,
                         sel0 |-> None]
    /\ pc' = "draw"
    /\ UNCHANGED <<termVars, exit_status, report>>

\* terminal.draw(|frame| ui(frame, &mut app))?: ui reads the App value; the
\* frame drawn closes what `last` observes
DrawOk ==
    /\ pc = "draw"
    /\ pc' = "poll"
    /\ last' = NothingHandled
    /\ UNCHANGED <<termVars, exit_status, processes, selected, message, should_quit, report>>

DrawErr ==
    /\ pc = "draw"
    /\ ReturnErr("draw")
    /\ UNCHANGED <<termVars, appVars, report>>

\* event::poll(..)? is Err
PollErr ==
    /\ pc = "poll"
    /\ ReturnErr("poll")
    /\ UNCHANGED <<termVars, appVars, report>>

\* event::poll(..)? is Ok(false)
PollTimeout ==
    /\ pc = "poll"
    /\ Handled(EvTimeout, CurrentApp)

\* event::read()? is Err
ReadErr ==
    /\ pc = "poll"
    /\ ReturnErr("read")
    /\ UNCHANGED <<termVars, appVars, report>>

\* an event that is no Event::Key
NonKeyEvent ==
    /\ pc = "poll"
    /\ Handled(EvOther, CurrentApp)

\* a key event whose kind is not Press
KeyNotPress ==
    /\ pc = "poll"
    /\ \E code \in KeyCodes : Handled(EvKey("Release", code), CurrentApp)

KeyQuit ==
    /\ pc = "poll"
    /\ \E code \in {"q", "Esc"} :
         Handled(EvKey("Press", code), [CurrentApp EXCEPT !.should_quit = TRUE])

KeyDown ==
    /\ pc = "poll"
    /\ \E code \in {"Down", "j"} : Handled(EvKey("Press", code), next(CurrentApp))

KeyUp ==
    /\ pc = "poll"
    /\ \E code \in {"Up", "k"} : Handled(EvKey("Press", code), previous(CurrentApp))

KeyKill ==
    /\ pc = "poll"
    /\ \E code \in {"Enter", "d"}, outcome \in KillOutcomes :
         IF outcome = "ok" /\ HasTarget(CurrentApp)
         THEN \E so \in ScanOutcomes :
                 Handled(EvKey("Press", code), kill_selected(CurrentApp, outcome, so[1], so[2]))
         ELSE Handled(EvKey("Press", code), kill_selected(CurrentApp, outcome, <<>>, FALSE))

KeyRefresh ==
    /\ pc = "poll"
    /\ \E so \in ScanOutcomes :
         Handled(EvKey("Press", "r"), refresh_processes(CurrentApp, so[1], so[2]))

\* the `_ => {}` arm
KeyOther ==
    /\ pc = "poll"
    /\ \E code \in KeyCodes \ {"q", "Esc", "Down", "j", "Up", "k", "Enter", "d", "r"} :
         Handled(EvKey("Press", code), CurrentApp)

\* disable_raw_mode()?
DisableRawOk ==
    /\ pc = "disable_raw"
    /\ raw_mode' = FALSE
    /\ pc' = "leave_alt"
    /\ UNCHANGED <<alt_screen, exit_status, appVars, report>>

DisableRawErr ==
    /\ pc = "disable_raw"
    /\ ReturnErr("disable_raw_mode")
    /\ UNCHANGED <<termVars, appVars, report>>

\* stdout().execute(LeaveAlternateScreen)?; Ok(())
LeaveAltOk ==
    /\ pc = "leave_alt"
    /\ alt_screen' = FALSE
    /\ pc' = "exited"
    /\ exit_status' = "ok"
    /\ UNCHANGED <<raw_mode, appVars, report>>

LeaveAltErr ==
    /\ pc = "leave_alt"
    /\ ReturnErr("LeaveAlternateScreen")
    /\ UNCHANGED <<termVars, appVars, report>>

Next ==
    \/ EnableRawOk \/ EnableRawErr
    \/ EnterAltOk \/ EnterAltErr
    \/ NewTerminalOk \/ NewTerminalErr
    \/ AppNew
    \/ DrawOk \/ DrawErr
    \/ PollErr \/ PollTimeout \/ ReadErr \/ NonKeyEvent \/ KeyNotPress
    \/ KeyQuit \/ KeyDown \/ KeyUp \/ KeyKill \/ KeyRefresh \/ KeyOther
    \/ DisableRawOk \/ DisableRawErr
    \/ LeaveAltOk \/ LeaveAltErr

Spec == Init /\ [][Next]_vars

(***************************************************************************)
(* The scanner alone, over every report                                    *)
(***************************************************************************)
ScanInit ==
    /\ pc = "scan_input"
    /\ IsReport(report)
    /\ raw_mode = FALSE
    /\ alt_screen = FALSE
    /\ exit_status = "running"
    /\ processes = <<>>
    /\ selected = None
    /\ message = NoMessage
    /\ should_quit = FALSE
    /\ last = NothingHandled

\* lsof ran and printed report
ScanRun ==
    /\ pc = "scan_input"
    /\ processes' = get_port_processes(report)
    /\ pc' = "scan_done"
    /\ UNCHANGED <<termVars, exit_status, selected, message, should_quit, report, last>>

\* Command::output() is Err: return Vec::new()
ScanSpawnErr ==
    /\ pc = "scan_input"
    /\ processes' = <<>>
    /\ pc' = "scan_failed"
    /\ UNCHANGED <<termVars, exit_status, selected, message, should_quit, report, last>>

ScanNext == ScanRun \/ ScanSpawnErr

ScanSpec == ScanInit /\ [][ScanNext]_vars

(***************************************************************************)
(* Properties of the application loop, checked under Spec                  *)
(***************************************************************************)
\* the step handled a kill key that reached kill_process
KillAttempted(l) ==
    /\ IsPress(l.event, {"Enter", "d"})
    /\ l.calls # <<>>
    /\ l.calls[1].cmd = "kill"

KillOk(l) == KillAttempted(l) /\ l.calls[1].outcome = "ok"

KillErr(l) == KillAttempted(l) /\ l.calls[1].outcome # "ok"

\* the step ran a scan
Scanned(l) == \E i \in 1..Len(l.calls) : l.calls[i].cmd = "lsof"

\* C1: whenever main has returned, by whatever path, the terminal is out of
\* raw mode and off the alternate screen.
C1_TerminalRestoredOnExit ==
    pc = "exited" => ~raw_mode /\ ~alt_screen

\* C2: a kill key whose termination fails (non-zero exit, or kill cannot be
\* run) leaves the list and the selected index as they were, runs no scan,
\* and sets the status message to the error naming the targeted pid.
C2_FailedKillKeepsState ==
    [][(pc = "poll" /\ KillErr(last')) =>
          /\ processes' = processes
          /\ selected' = selected
          /\ ~Scanned(last')
          /\ Len(last'.calls) = 1
          /\ last'.calls[1].pid = processes[selected + 1].pid
          /\ message' = MsgFailed(processes[selected + 1].pid, last'.calls[1].outcome)
          /\ message'.kind = "Failed"]_vars

C2_Witness ==
    /\ pc = "draw"
    /\ KillErr(last)
    /\ Len(processes) >= 2
    /\ selected = 1
    /\ message = MsgFailed(processes[2].pid, "status")

\* C3: after a kill key whose termination succeeded, the status message at
\* the next render is the confirmation naming the killed process and pid.
C3_KilledMessageShown ==
    (pc = "draw" /\ KillOk(last)) =>
        message = MsgKilled(last.target[1].name, last.target[1].pid)

\* C4: a successful termination is followed in the same step, before the
\* next render and input, by exactly one scan, whose result becomes the
\* list, and the selection is reconciled: None on an empty list, the last
\* index when the old index is past the end, the old index otherwise.
C4_SuccessfulKillRescans ==
    [][(pc = "poll" /\ KillOk(last')) =>
          /\ Len(last'.calls) = 2
          /\ last'.calls[2].cmd = "lsof"
          /\ processes' \in ScanResults
          /\ pc' = "draw"
          /\ selected # None
          /\ selected' = IF processes' = <<>> THEN None
                         ELSE IF selected >= Len(processes') THEN Len(processes') - 1
                         ELSE selected]_vars

\* the index was kept and now names another process
C4_Witness ==
    /\ pc = "draw"
    /\ KillOk(last)
    /\ selected = last.sel0
    /\ selected = 1
    /\ processes[selected + 1].pid # last.target[1].pid

\* C5: every scan (at startup, on the refresh key, after a successful kill)
\* maps the selection by the size n of the new list: n = 0 gives None;
\* Some(i) with i >= n > 0 gives Some(n - 1); None with n > 0 gives Some(0);
\* Some(i) with i < n stays.
C5_ReconcileTable ==
    [][(pc \in {"app_new", "poll"} /\ Scanned(last')) =>
          LET n == Len(processes')
          IN  /\ n = 0 => selected' = None
              /\ (selected # None /\ selected >= n /\ n > 0) => selected' = n - 1
              /\ (selected = None /\ n > 0) => selected' = 0
              /\ (selected # None /\ selected < n) => selected' = selected]_vars

\* the refresh key shrank the list under the selection
C5_Witness ==
    /\ pc = "draw"
    /\ last.event = EvKey("Press", "r")
    /\ last.sel0 = 2
    /\ Len(processes) = 2
    /\ selected = 1

\* k applications of next / previous
RECURSIVE NextTimes(_, _)
NextTimes(app, k) == IF k = 0 THEN app ELSE NextTimes(next(app), k - 1)

RECURSIVE PreviousTimes(_, _)
PreviousTimes(app, k) == IF k = 0 THEN app ELSE PreviousTimes(previous(app), k - 1)

\* the cycle laws of next and previous on the App value held
C6_Cycle ==
    LET app == CurrentApp
        n == Len(processes)
    IN  /\ (n > 0 /\ selected # None) =>
              /\ {NextTimes(app, k).selected : k \in 1..n} = 0..(n - 1)
              /\ NextTimes(app, n).selected = selected
              /\ {PreviousTimes(app, k).selected : k \in 1..n} = 0..(n - 1)
              /\ PreviousTimes(app, n).selected = selected
              /\ previous(next(app)).selected = selected
        /\ n > 0 =>
              /\ next([app EXCEPT !.selected = None]).selected = 0
              /\ previous([app EXCEPT !.selected = None]).selected = 0
        /\ n = 0 =>
              /\ next(app) = app
              /\ previous(app) = app

\* what the Down and Up keys do to the selection
C6_Step ==
    LET n == Len(processes)
    IN  /\ (pc = "poll" /\ IsPress(last'.event, {"Down", "j"})) =>
              /\ (n > 0 /\ selected # None) => selected' = (selected + 1) % n
              /\ (n > 0 /\ selected = None) => selected' = 0
              /\ n = 0 => selected' = selected
        /\ (pc = "poll" /\ IsPress(last'.event, {"Up", "k"})) =>
              /\ (n > 0 /\ selected # None) => selected' = (selected + n - 1) % n
              /\ (n > 0 /\ selected = None) => selected' = 0
              /\ n = 0 => selected' = selected

\* C6: on a list of n > 0 rows next moves i to (i + 1) mod n and previous
\* moves i to (i - 1) mod n; n nexts, or n previouses, visit every index
\* and return to the start; previous undoes next; with no selection either
\* selects 0; on an empty list neither changes the selection.
C6_NavigationCycles == []C6_Cycle /\ [][C6_Step]_vars

\* the Down key wrapped from the last of three rows to the first
C6_Witness ==
    /\ pc = "draw"
    /\ IsPress(last.event, {"Down", "j"})
    /\ Len(processes) = 3
    /\ last.sel0 = 2
    /\ selected = 0

(***************************************************************************)
(* Properties of the scanner, checked under ScanSpec                       *)
(***************************************************************************)
\* the rows of the report after the header
DataRows == 2..Len(report)

HasColon(s) == \E i \in 1..Len(s) : s[i] = ":"

\* what the text of one row says, field by field
RowInfo(line) ==
    LET fields == split_whitespace(line)
        enough == Len(fields) >= MinFields
        pid == IF enough THEN parse_pid(fields[2]) ELSE -1
        addr == IF enough THEN fields[9] ELSE <<>>
        \* the text after the last ':' of the address, all of it without a ':'
        tail == SubSeq(addr, LastColon(addr) + 1, Len(addr))
        parsed == parse_unsigned(tail, U16Max)
        port == IF parsed = -1 THEN 0 ELSE parsed
    IN  [nfields |-> Len(fields),
         \* the TYPE and NODE columns: parts[4] and parts[7]
         type |-> IF enough THEN fields[5] ELSE <<>>,
         node |-> IF enough THEN fields[8] ELSE <<>>,
         \* nine fields and a pid that parses
         wellformed |-> enough /\ pid # -1,
         pid |-> pid,
         colon |-> HasColon(addr),
         portparsed |-> parsed,
         port |-> port,
         \* the row can give a binding: well formed, with a port that is not 0
         usable |-> enough /\ pid # -1 /\ port > 0,
         binding |-> IF enough
                     THEN PortProcess(pid, port, classify_protocol(fields), fields[1])
                     ELSE PortProcess(pid, port, "", <<>>)]

\* the table of the data rows of the report (bound once, by a quantifier,
\* where it is used)
RowTable == [k \in DataRows |-> RowInfo(report[k])]

\* the first usable row of pid p in table rows
FirstUsable(rows, p) ==
    CHOOSE k \in DOMAIN rows :
        /\ rows[k].usable /\ rows[k].pid = p
        /\ \A j \in DOMAIN rows : (rows[j].usable /\ rows[j].pid = p) => k <= j

InResult(b) == \E i \in 1..Len(processes) : processes[i] = b

\* C7: the scan result holds no pid twice; each pid with a usable row has
\* the binding of its first usable row, and no other pid has one; the
\* result is sorted by port, bindings of equal port in input order.
C7_ScanResultShape ==
    pc = "scan_done" =>
        \A rows \in {RowTable} :
            /\ \A i, j \in 1..Len(processes) : i # j => processes[i].pid # processes[j].pid
            /\ \A k \in DataRows :
                  rows[k].usable => InResult(rows[FirstUsable(rows, rows[k].pid)].binding)
            /\ \A i \in 1..Len(processes) :
                  \E k \in DataRows :
                      /\ rows[k].usable
                      /\ processes[i] = rows[FirstUsable(rows, rows[k].pid)].binding
            /\ \A i, j \in 1..Len(processes) : i < j =>
                  /\ processes[i].port <= processes[j].port
                  /\ processes[i].port = processes[j].port =>
                         FirstUsable(rows, processes[i].pid) < FirstUsable(rows, processes[j].pid)

\* a pid with two usable rows of different ports, and two pids on one port
C7_Witness ==
    /\ pc = "scan_done"
    /\ Len(processes) = 2
    /\ processes[1].port = processes[2].port
    /\ \E rows \in {RowTable} :
           \E k, j \in DataRows :
              /\ k < j /\ rows[k].usable /\ rows[j].usable
              /\ rows[k].pid = rows[j].pid /\ rows[k].port # rows[j].port

\* C8: a well-formed row whose port resolves to 0 gives no binding and does
\* not mark its pid as seen: the first usable row of that pid, when it comes
\* later, gives the pid's binding, and a pid with no usable row has none.
C8_ZeroPortRowNotSeen ==
    pc = "scan_done" =>
        \A rows \in {RowTable} :
            \A k \in DataRows : (rows[k].wellformed /\ rows[k].port = 0) =>
                /\ ~InResult(rows[k].binding)
                /\ \A i \in 1..Len(processes) : processes[i].port # 0
                /\ \A j \in DataRows :
                      (/\ j > k /\ rows[j].usable /\ rows[j].pid = rows[k].pid
                       /\ \A h \in DataRows :
                             (h < j /\ rows[h].wellformed /\ rows[h].pid = rows[k].pid)
                                 => rows[h].port = 0)
                      => InResult(rows[j].binding)
                /\ (\A j \in DataRows : ~(rows[j].usable /\ rows[j].pid = rows[k].pid))
                      => \A i \in 1..Len(processes) : processes[i].pid # rows[k].pid

\* a port-0 row followed by the row that gives its pid's binding
C8_Witness ==
    /\ pc = "scan_done"
    /\ \E rows \in {RowTable} :
           \E k, j \in DataRows :
              /\ k < j
              /\ rows[k].wellformed /\ rows[k].port = 0
              /\ rows[j].usable /\ rows[j].pid = rows[k].pid
              /\ InResult(rows[j].binding)

\* C9: every binding's port is the 16-bit number after the last ':' of its
\* row's address field, and a row whose address field has no ':' is
\* dropped, a bare number such as 8080 included.
C9_NoColonRowDropped ==
    pc = "scan_done" =>
        \A rows \in {RowTable} :
            \A i \in 1..Len(processes) :
                LET k == FirstUsable(rows, processes[i].pid)
                IN  /\ rows[k].colon
                    /\ processes[i].port = rows[k].portparsed

\* row k is short, or its pid does not parse, or its port does not parse
Offending(rows, k) ==
    \/ rows[k].nfields < MinFields
    \/ rows[k].pid = -1
    \/ rows[k].portparsed = -1

RemoveAt(s, k) == SubSeq(s, 1, k - 1) \o SubSeq(s, k + 1, Len(s))

\* C10: a row that is short, or whose pid or port does not parse, gives no
\* binding, and the scan returns what it returns for the report without
\* that row.
C10_OffendingRowIsInert ==
    pc = "scan_done" =>
        \A rows \in {RowTable} :
            /\ Len(processes) <= Cardinality({k \in DataRows : ~Offending(rows, k)})
            /\ \A i \in 1..Len(processes) :
                  ~Offending(rows, FirstUsable(rows, processes[i].pid))
            /\ \A k \in DataRows :
                  Offending(rows, k) => processes = get_port_processes(RemoveAt(report, k))

\* an overflowing port, then the row that gives the same pid its binding,
\* and a short row
C10_Witness ==
    /\ pc = "scan_done"
    /\ \E rows \in {RowTable} :
           /\ \E k, j \in DataRows :
                /\ k < j
                /\ rows[k].wellformed /\ rows[k].colon /\ rows[k].portparsed = -1
                /\ rows[j].usable /\ rows[j].pid = rows[k].pid
                /\ InResult(rows[j].binding)
           /\ \E k \in DataRows : rows[k].nfields < MinFields

\* pat occurs in s, character for character
Occurs(pat, s) == \E i, j \in 1..Len(s) : SubSeq(s, i, j) = pat

\* C11: a binding's protocol is TCP when the TYPE or the NODE column of its
\* row contains "TCP" (also when the other contains "UDP"), else UDP when
\* one of them contains "UDP", else "???"; upper case only.
C11_ProtocolClassification ==
    pc = "scan_done" =>
        \A rows \in {RowTable} :
            \A i \in 1..Len(processes) :
                LET r == rows[FirstUsable(rows, processes[i].pid)]
                    tcp == Occurs(<<"T", "C", "P">>, r.type) \/ Occurs(<<"T", "C", "P">>, r.node)
                    udp == Occurs(<<"U", "D", "P">>, r.type) \/ Occurs(<<"U", "D", "P">>, r.node)
                IN  /\ tcp => processes[i].protocol = "TCP"
                    /\ (~tcp /\ udp) => processes[i].protocol = "UDP"
                    /\ (~tcp /\ ~udp) => processes[i].protocol = "???"

\* one scan with a TCP row that also says UDP, a UDP row and a row that
\* says tcp in lower case
C11_Witness ==
    /\ pc = "scan_done"
    /\ {processes[i].protocol : i \in 1..Len(processes)} = {"TCP", "UDP", "???"}
    /\ \E rows \in {RowTable} :
          \E i \in 1..Len(processes) :
              LET r == rows[FirstUsable(rows, processes[i].pid)]
              IN  /\ processes[i].protocol = "TCP"
                  /\ Occurs(<<"U", "D", "P">>, r.type)
                  /\ Occurs(<<"T", "C", "P">>, r.node)

\* the positions of main inside the loop, and those after it
InLoop == {"draw", "poll"}

AfterLoop == {"disable_raw", "leave_alt"}

\* the step of C12: what a quit key does, what may follow it, how the loop ends
C12_Step ==
    /\ (pc = "poll" /\ IsPress(last'.event, {"q", "Esc"})) =>
          /\ should_quit'
          /\ pc' = "disable_raw"
          /\ last'.calls = <<>>
          /\ exit_status' = "running"
    /\ should_quit =>
          /\ pc' \notin InLoop
          /\ UNCHANGED <<processes, selected, message, should_quit, last>>
    /\ (pc \in InLoop /\ pc' \notin InLoop) =>
          \/ /\ pc = "poll"
             /\ pc' = "disable_raw"
             /\ IsPress(last'.event, {"q", "Esc"})
             /\ should_quit'
          \/ /\ pc' = "exited"
             /\ exit_status' \in {"err: draw", "err: poll", "err: read"}

\* C12: a handled quit key (q or Esc) ends the loop in that same step, with
\* no scan and no termination; once the quit flag is set no render, poll,
\* read, scan or termination follows; and the loop is left only by a quit
\* key or by an error of draw, poll or read.
C12_QuitEndsLoop ==
    /\ [](should_quit => pc \in AfterLoop \cup {"exited"})
    /\ [][C12_Step]_vars

\* the quit key was handled with rows on screen, and the loop is left
C12_Witness ==
    /\ pc = "disable_raw"
    /\ should_quit
    /\ IsPress(last.event, {"q", "Esc"})
    /\ Len(processes) >= 2
    /\ selected = 1

\* the commands of a step, by their names
CallNames(l) == [i \in 1..Len(l.calls) |-> l.calls[i].cmd]

\* C13: each external command runs exactly once per action and is never
\* retried: startup and the refresh key run one scan and no termination;
\* the kill key with a selected row runs one termination, then one scan if
\* it succeeded and none if it failed; navigation, quit, ignored input and
\* a poll timeout run nothing.
C13_CommandsOncePerAction ==
    [][/\ pc = "app_new" => CallNames(last') = <<"lsof">>
       /\ (pc = "poll" /\ pc' # "exited") =>
             LET ev == last'.event
                 names == CallNames(last')
             IN  /\ IsPress(ev, {"r"}) => names = <<"lsof">>
                 /\ (IsPress(ev, {"Enter", "d"}) /\ selected # None) =>
                       /\ names # <<>>
                       /\ names[1] = "kill"
                       /\ last'.calls[1].outcome = "ok" => names = <<"kill", "lsof">>
                       /\ last'.calls[1].outcome # "ok" => names = <<"kill">>
                 /\ (IsPress(ev, {"Enter", "d"}) /\ selected = None) => names = <<>>
                 /\ ~IsPress(ev, {"r", "Enter", "d"}) => names = <<>>]_vars

\* a kill that succeeded, then the one scan, which could not run lsof
C13_Witness ==
    /\ pc = "draw"
    /\ IsPress(last.event, {"Enter", "d"})
    /\ Len(last.calls) = 2
    /\ last.calls[1] = CallKill(last.target[1].pid, "ok")
    /\ last.calls[2] = CallLsof(FALSE)

\* the mapped key presses
MappedKeys == {"q", "Esc", "Down", "j", "Up", "k", "Enter", "d", "r"}

NavKeys == {"Down", "j", "Up", "k"}

\* C14: input other than a mapped key press (a poll timeout, a non-key
\* event, a key event that is no press, an unmapped key) leaves list,
\* selection, message and quit flag unchanged; the selection changes only
\* in next, previous and a refresh; quit and a failed kill keep it; and a
\* navigation key changes nothing but the selection.
C14_IgnoredInputAndFrames ==
    [][(pc = "poll" /\ pc' # "exited") =>
          LET ev == last'.event
          IN  /\ ~IsPress(ev, MappedKeys) =>
                    /\ UNCHANGED <<processes, selected, message, should_quit>>
                    /\ last'.calls = <<>>
                    /\ pc' = "draw"
              /\ selected' # selected =>
                    \/ IsPress(ev, NavKeys)
                    \/ Scanned(last')
              /\ IsPress(ev, {"q", "Esc"}) => selected' = selected
              /\ KillErr(last') => selected' = selected
              /\ IsPress(ev, NavKeys) =>
                    UNCHANGED <<processes, message, should_quit>>]_vars

\* a key release of a mapped key after a failed kill: nothing moved
C14_Witness ==
    /\ pc = "draw"
    /\ last.event = EvKey("Release", "q")
    /\ ~should_quit
    /\ Len(processes) >= 2
    /\ selected = 1
    /\ message.kind = "Failed"

\* C15: a scan never propagates an error: when lsof cannot be run the scan
\* yields the empty list and main goes on to the next render. After the
\* refresh key the list is the new scan result, the selection is
\* reconciled (None on an empty list, the last index when the old one is
\* past the end, 0 when there was none, the old index otherwise), and the
\* message is the count of the new list, "Found 0 processes" after a scan
\* that could not run.
C15_RefreshNeverFails ==
    [][/\ (pc \in {"app_new", "poll"} /\ Scanned(last')) =>
             /\ pc' = "draw"
             /\ exit_status' = "running"
             /\ \A i \in 1..Len(last'.calls) :
                   (last'.calls[i].cmd = "lsof" /\ ~last'.calls[i].ok) =>
                       /\ processes' = <<>>
                       /\ selected' = None
                       /\ message' = MsgFound(0)
       /\ (pc = "poll" /\ IsPress(last'.event, {"r"})) =>
             /\ last'.calls # <<>>
             /\ processes' \in ScanResults
             /\ message' = MsgFound(Len(processes'))
             /\ message'.kind = "Found"
             /\ selected' = IF processes' = <<>> THEN None
                            ELSE IF selected = None THEN 0
                            ELSE IF selected >= Len(processes') THEN Len(processes') - 1
                            ELSE selected]_vars

\* the refresh key with a row selected, lsof could not be run
C15_Witness ==
    /\ pc = "draw"
    /\ last.event = EvKey("Press", "r")
    /\ last.calls = <<CallLsof(FALSE)>>
    /\ last.sel0 = 1
    /\ processes = <<>>
    /\ selected = None
    /\ message = MsgFound(0)
    /\ exit_status = "running"

\* the step handled the Up or k key on a non-empty list with a selection
PreviousStep ==
    /\ pc = "poll"
    /\ IsPress(last'.event, {"Up", "k"})
    /\ processes # <<>>
    /\ selected # None

\* C16 as stated: previous() on a non-empty list with a current selection
\* selects 0 if the current index is 0, and current - 1 otherwise.
C16_PreviousStaysAtFirst ==
    [][PreviousStep =>
          selected' = IF selected = 0 THEN 0 ELSE selected - 1]_vars

\* C16: previous() on a non-empty list of N rows with a current selection
\* selects N - 1, the last index, if the current index is 0, and
\* current - 1 otherwise.
C16_PreviousWrapsToLast ==
    [][PreviousStep =>
          /\ selected' = IF selected = 0 THEN Len(processes) - 1 ELSE selected - 1
          /\ processes' = processes]_vars

\* Up on the first of three rows selected the third
C16_Witness ==
    /\ pc = "draw"
    /\ IsPress(last.event, {"Up", "k"})
    /\ last.sel0 = 0
    /\ Len(processes) = 3
    /\ selected = 2

\* C17: every binding of every scan result has pid >= 1 and a port in
\* 1..65535; so the application never holds a row with pid 0 and never
\* runs kill with pid 0.
C17_PidAndPortPositive ==
    /\ \A i \in 1..Len(processes) :
          /\ processes[i].pid >= 1
          /\ processes[i].port \in 1..65535
    /\ \A i \in 1..Len(last.calls) :
          last.calls[i].cmd = "kill" => last.calls[i].pid >= 1

\* main has not yet built the App
BeforeApp == {"enable_raw", "enter_alt", "new_terminal", "app_new"}

\* C18: the first render and the first input come after exactly one scan
\* and its reconcile, and nothing is scanned before App::new: at that
\* first render the selection is 0 if the scan gave rows and None if it
\* gave none, the quit flag is unset, and the message is the count of that
\* first scan.
C18_StartupState ==
    /\ pc \in BeforeApp =>
          /\ last = NothingHandled
          /\ processes = <<>>
          /\ selected = None
          /\ message = NoMessage
          /\ ~should_quit
    /\ last.event = EvStartup =>
          /\ pc \in {"draw", "exited"}
          /\ Len(last.calls) = 1
          /\ last.calls[1].cmd = "lsof"
          /\ processes \in ScanResults
          /\ selected = (IF processes = <<>> THEN None ELSE 0)
          /\ ~should_quit
          /\ message = MsgFound(Len(processes))
    /\ pc \in {"poll", "disable_raw", "leave_alt"} => last.event # EvStartup

\* the first render is due, the first scan gave three rows
C18_Witness ==
    /\ pc = "draw"
    /\ last.event = EvStartup
    /\ Len(processes) = 3
    /\ selected = 0
    /\ message = MsgFound(3)

\* C19: in every reachable state, at every render and before every input,
\* the selection is None exactly when the list is empty, and Some(i) has
\* 0 <= i < length of the list.
C19_SelectionInBounds ==
    /\ selected = None <=> processes = <<>>
    /\ selected # None => selected \in 0..(Len(processes) - 1)

\* a kill on the third row, the re-scan gave one row: the index was clamped
C19_Witness ==
    /\ pc = "draw"
    /\ KillOk(last)
    /\ last.sel0 = 2
    /\ Len(processes) = 1
    /\ selected = 0

\* C20: kill is only ever run with the pid of the row at the selected index
\* of the list held when the kill key is handled; with an empty list the
\* kill key runs nothing and leaves list, selection and message unchanged;
\* with a non-empty list the kill key does run kill.
C20_KillTargetsSelectedRow ==
    [][/\ \A i \in 1..Len(last'.calls) :
             (last'.calls # last.calls /\ last'.calls[i].cmd = "kill") =>
                 /\ pc = "poll"
                 /\ i = 1
                 /\ IsPress(last'.event, {"Enter", "d"})
                 /\ selected \in 0..(Len(processes) - 1)
                 /\ last'.calls[i].pid = processes[selected + 1].pid
       /\ (pc = "poll" /\ IsPress(last'.event, {"Enter", "d"})) =>
             /\ processes = <<>> =>
                   /\ last'.calls = <<>>
                   /\ UNCHANGED <<processes, selected, message>>
             /\ processes # <<>> =>
                   /\ last'.calls # <<>>
                   /\ last'.calls[1].cmd = "kill"]_vars

\* kill ran on the third of three rows
C20_Witness ==
    /\ pc = "draw"
    /\ KillErr(last)
    /\ last.sel0 = 2
    /\ Len(processes) = 3
    /\ last.calls = <<CallKill(processes[3].pid, "spawn")>>
    /\ processes[3].pid # processes[1].pid

====
